---- MODULE Spec2Model ----
(***************************************************************************)
(* Zenopay API: the control-number registry (ControlNumber model,          *)
(* ControlNumberService, ControlNumberController) and the payment ledger   *)
(* with its webhook reconciliation and service delivery (Payment, Service, *)
(* WebhookController, PaymentController).                                  *)
(*                                                                         *)
(* Every request handler is an async function: it runs without             *)
(* interruption between two awaits, and other handlers run while it waits  *)
(* for the database.  One action of the model is one such uninterrupted    *)
(* piece, ending at the database operation it awaits.                      *)
(*                                                                         *)
(* A mongoose document is a private copy of the stored record; save()      *)
(* writes the fields the handler assigned, addressed by _id alone.         *)
(***************************************************************************)
EXTENDS Integers, Sequences, FiniteSets, TLC

VARIABLES
    now,     \* the clock, Date.now()
    cns,     \* the ControlNumber collection, in _id order
    pc,      \* where each request handler stands
    doc,     \* the document each request handler holds
    todo,    \* the documents a sweep has still to save
    reply,   \* the reply sent last
    okUses,  \* per control number, the redeem calls that reported success
    pays,    \* the Payment collection, in _id order
    svcs,    \* the Service collection, in _id order
    hpc,     \* where each payment-status handler stands
    hdoc,    \* the documents each payment-status handler holds
    norm     \* the status normalization made last

cnVars == <<cns, pc, doc, todo, okUses>>

payVars == <<pays, svcs, hpc, hdoc>>

vars == <<now, reply, cnVars, payVars, norm>>

----------------------------------------------------------------------------
(* Bounds of the model *)

NumProcs == 2
MaxTime == 2
MaxCodes == 1
MaxBatch == 2
MaxPayments == 1
MaxHistory == 2
MaxLinked == 2
MaxAccess == 1
MaxSiblings == 2
MaxInitiations == 2

Procs == 1..NumProcs

(* Inputs of the requests *)
Prefixes == {"ZENO", "zeno"}
Randoms == {"A1B2", "C3D4"}
Windows == {1, 2}
UseModes == {[isReusable |-> FALSE, maxUses |-> 1], [isReusable |-> TRUE, maxUses |-> 2]}
PaymentRefs == {1, 2}

Request(amount, currency, prefix, random, expiresIn, validFor, mode) ==
    [amount |-> amount, currency |-> currency, prefix |-> prefix, random |-> random,
     expiresIn |-> expiresIn, validFor |-> validFor,
     isReusable |-> mode.isReusable, maxUses |-> mode.maxUses]

(* Generation requests of the redemption scenarios: every validity window
   and use limit, one random suffix *)
LifeRequests ==
    {Request(100, "USD", pf, "A1B2", e, v, m) :
        pf \in Prefixes, e \in Windows, v \in Windows, m \in UseModes}
    \cup {Request(0, "USD", "ZENO", "A1B2", 1, 1, [isReusable |-> FALSE, maxUses |-> 1]),
          Request(100, "TZS", "ZENO", "A1B2", 1, 1, [isReusable |-> FALSE, maxUses |-> 1])}

(* Generation requests of the issuing scenarios: every amount, currency,
   prefix and random suffix, one validity window *)
GenRequests ==
    {Request(a, c, pf, r, 1, 1, [isReusable |-> FALSE, maxUses |-> 1]) :
        a \in {0, 100}, c \in {"USD", "TZS"}, pf \in Prefixes, r \in Randoms}

----------------------------------------------------------------------------
(* The ControlNumber schema *)

CurrencyEnum == {"USD", "EUR", "GBP", "Local"}
StatusEnum == {"active", "used", "expired", "cancelled"}
TerminalCn == {"used", "expired", "cancelled"}

NoTime == -1
NoRef == [src |-> "none", n |-> 0]
NoCode == <<"", 0, "">>

(* String.prototype.toUpperCase on a control number: the prefix is the only
   part that can hold lower-case letters (the timestamp is digits and the
   random suffix is upper-cased when generated). *)
UpperPrefix(s) == IF s = "zeno" THEN "ZENO" ELSE s

toUpperCase(code) == <<UpperPrefix(code[1]), code[2], code[3]>>

(* controlNumberSchema.methods.generateControlNumber: prefix, the last eight
   digits of Date.now(), four random base-36 characters upper-cased. *)
TimestampModulus == 100000000

generateControlNumber(prefix, t, random) == <<prefix, t % TimestampModulus, random>>

(* virtual isExpired *)
isExpired(d, t) == t > d.expiresAt

(* virtual isValid *)
isValid(d, t) ==
    /\ d.status = "active"
    /\ t <= d.validUntil
    /\ d.currentUses < d.maxUses

(* methods.canBeUsed *)
canBeUsed(d, t) == isValid(d, t) /\ ~isExpired(d, t)

(* methods.markAsUsed on a document whose status is active (the throwing
   branch is MarkThrows) *)
MarkThrows(d) == d.status # "active"

markAsUsed(d, ref, t) ==
    LET d1 == [d EXCEPT !.status = "used", !.usedAt = t,
                        !.paymentReference = ref,
                        !.currentUses = d.currentUses + 1]
    IN IF ~d1.isReusable \/ d1.currentUses >= d1.maxUses
       THEN [d1 EXCEPT !.status = "used"]
       ELSE d1

(* methods.extendValidity *)
extendValidity(d, days) == [d EXCEPT !.validUntil = d.validUntil + days]

(* Schema validation run by save() on a new document *)
SchemaValid(d) ==
    /\ d.amount > 0
    /\ d.currency \in CurrencyEnum
    /\ d.maxUses >= 1

(* The unique index on controlNumber *)
Ids == 1..Len(cns)

NoUniqueIndex(store, code) == FALSE

DuplicateKey(store, code) == \E i \in 1..Len(store) : store[i].controlNumber = code

(* ControlNumber.findOne({controlNumber: code}) and
   ControlNumber.findOne({controlNumber: code, status: 'active'}):
   the _id (index) of the match, 0 for null *)
Matching(store, code, statuses) ==
    {i \in 1..Len(store) : store[i].controlNumber = code /\ store[i].status \in statuses}

findOne(store, code, statuses) ==
    IF Matching(store, code, statuses) = {} THEN 0
    ELSE CHOOSE i \in Matching(store, code, statuses) :
             \A j \in Matching(store, code, statuses) : i <= j

NewControlNumber(code, amount, currency, createdAt, expiresAt, validUntil, isReusable, maxUses) ==
    [controlNumber |-> code, amount |-> amount, currency |-> currency,
     status |-> "active", createdAt |-> createdAt,
     expiresAt |-> expiresAt, validUntil |-> validUntil,
     isReusable |-> isReusable, maxUses |-> maxUses, currentUses |-> 0,
     usedAt |-> NoTime, paymentReference |-> NoRef]

NoRequest == Request(0, "", "", "", 0, 0, [isReusable |-> FALSE, maxUses |-> 0])

NoDoc == [id |-> 0, attempts |-> 0, req |-> NoRequest,
          d |-> NewControlNumber(NoCode, 0, "", 0, 0, 0, FALSE, 0)]

Loaded(store, i) == [id |-> i, attempts |-> 0, req |-> NoRequest, d |-> store[i]]

NoReply == [op |-> "none", ok |-> FALSE, msg |-> "", id |-> 0, amount |-> 0, currency |-> ""]

Result(op, ok, msg, id, amount, currency) ==
    [op |-> op, ok |-> ok, msg |-> msg, id |-> id, amount |-> amount, currency |-> currency]

Failure(op, msg) == Result(op, FALSE, msg, 0, 0, "")

(* The codes a caller may present: a stored code, the same code typed with
   another case of the prefix, or a code that was never issued *)
Presented ==
    {<<pf, cns[i].controlNumber[2], cns[i].controlNumber[3]>> :
        pf \in Prefixes, i \in Ids} \cup {<<"ZENO", 0, "0000">>}

----------------------------------------------------------------------------
(* What save() writes for each handler: the paths the handler assigned *)

SaveUseIncrementing(stored, d) ==
    [stored EXCEPT !.status = d.status, !.usedAt = d.usedAt,
                   !.paymentReference = d.paymentReference,
                   !.currentUses = stored.currentUses + 1]

SaveUse(stored, d) ==
    [stored EXCEPT !.status = d.status, !.usedAt = d.usedAt,
                   !.paymentReference = d.paymentReference,
                   !.currentUses = d.currentUses]

SaveValidity(stored, d) == [stored EXCEPT !.validUntil = d.validUntil]

SaveStatus(stored, d) == [stored EXCEPT !.status = d.status]

(* ControlNumberService.validateControlNumber *)
ValidateOutcome(store, code, t) ==
    LET i == findOne(store, toUpperCase(code), {"active"})
    IN IF i = 0 THEN Failure("validate", "Control number not found or expired")
       ELSE IF isExpired(store[i], t) THEN Failure("validate", "Control number has expired")
       ELSE IF ~canBeUsed(store[i], t) THEN Failure("validate", "Control number cannot be used")
       ELSE Result("validate", TRUE, "", i, store[i].amount, store[i].currency)

(* ControlNumberService.useControlNumber up to its save: the error thrown,
   or "" when the document is marked and about to be saved *)
UseOutcome(store, code, t) ==
    LET i == findOne(store, toUpperCase(code), {"active"})
    IN IF i = 0 THEN "Control number not found or not active"
       ELSE IF ~canBeUsed(store[i], t) THEN "Control number cannot be used"
       ELSE IF MarkThrows(store[i]) THEN "Control number is not active"
       ELSE ""

----------------------------------------------------------------------------
(* The Payment and Service schemas *)

PaymentStatusEnum == {"pending", "completed", "failed", "cancelled"}
TerminalPayment == {"completed", "failed", "cancelled"}

RawStatuses == {"COMPLETED", "PENDING", "PROCESSING", "FAILED", "CANCELLED", "SETTLED", "UNKNOWN"}
Durations == {0, 1}

NewPayment == [status |-> "pending", statusHistory |-> <<>>,
               completedAt |-> NoTime, failedAt |-> NoTime]

NewService(paymentId, duration) ==
    [paymentId |-> paymentId, status |-> "pending", duration |-> duration,
     accessGrantedAt |-> NoTime, expiresAt |-> NoTime,
     deliveryAttempts |-> 0, deliveryStatus |-> "not_started", accessToken |-> 0,
     accessCount |-> 0, activations |-> 0]

NoHandlerDoc == [pay |-> 0, status |-> "", at |-> NoTime, modified |-> FALSE, queue |-> <<>>]

updateStatusAlways(id, stored, newStatus, t) ==
    [pay |-> id, status |-> newStatus, at |-> t, modified |-> TRUE, queue |-> <<>>]

(* paymentSchema.methods.updateStatus on the handler's document *)
updateStatus(id, stored, newStatus, t) ==
    IF stored.status # newStatus
    THEN [pay |-> id, status |-> newStatus, at |-> t, modified |-> TRUE, queue |-> <<>>]
    ELSE [pay |-> id, status |-> stored.status, at |-> NoTime, modified |-> FALSE, queue |-> <<>>]

(* payment.save(): the status enum is validated, then the assigned paths are
   written and the new history entry is pushed *)
PaymentValid(d) == d.status \in PaymentStatusEnum

SavePayment(stored, d) ==
    [stored EXCEPT !.status = d.status,
                   !.statusHistory = Append(@, d.status),
                   !.completedAt = IF d.status = "completed" THEN d.at ELSE @,
                   !.failedAt = IF d.status = "failed" THEN d.at ELSE @]

(* The status lookup tables.  table[key] on an object literal finds the
   literal's own entries and, for any other key, what Object.prototype
   holds under that name (a function), else undefined; `|| 'pending'`
   replaces undefined. *)
Undefined == "undefined"
NativeFunction == "function"
ObjectPrototype == {"constructor", "toString", "valueOf", "hasOwnProperty"}

Lookup(table, key) ==
    IF key \in DOMAIN table THEN table[key]
    ELSE IF key \in ObjectPrototype THEN NativeFunction
    ELSE Undefined

OrPending(v) == IF v = Undefined THEN "pending" ELSE v

webhookTable ==
    [COMPLETED |-> "completed", PENDING |-> "pending", PROCESSING |-> "processing",
     FAILED |-> "failed", CANCELLED |-> "cancelled"]

pollTable ==
    [COMPLETED |-> "completed", PENDING |-> "pending",
     FAILED |-> "failed", CANCELLED |-> "cancelled"]

serviceTable ==
    [COMPLETED |-> "completed", PENDING |-> "pending",
     FAILED |-> "failed", CANCELLED |-> "cancelled"]

bankTable ==
    [INITIATED |-> "pending", PENDING |-> "pending", PROCESSING |-> "processing",
     IN_PROGRESS |-> "processing", COMPLETED |-> "completed", SUCCESSFUL |-> "completed",
     SETTLED |-> "completed", FAILED |-> "failed", REJECTED |-> "failed",
     CANCELLED |-> "cancelled", RETURNED |-> "failed"]

statusMappings ==
    [mtn |-> [PENDING |-> "pending", PROCESSING |-> "processing", COMPLETED |-> "completed",
              FAILED |-> "failed", CANCELLED |-> "cancelled"],
     airtel |-> [INITIATED |-> "pending", PROCESSING |-> "processing",
                 SUCCESSFUL |-> "completed", FAILED |-> "failed", CANCELLED |-> "cancelled"],
     vodafone |-> [PENDING |-> "pending", IN_PROGRESS |-> "processing",
                   COMPLETED |-> "completed", FAILED |-> "failed", CANCELLED |-> "cancelled"],
     tigo |-> [PENDING |-> "pending", PROCESSING |-> "processing", SUCCESS |-> "completed",
               FAILED |-> "failed", CANCELLED |-> "cancelled"]]

webhookStatusMap(raw) == OrPending(Lookup(webhookTable, raw))

pollStatusMap(raw) == OrPending(Lookup(pollTable, raw))

serviceStatusMap(raw) == OrPending(Lookup(serviceTable, raw))

bankMapStatus(raw) == OrPending(Lookup(bankTable, raw))

(* MobileMoneyService.mapStatus: statusMappings[network]?.[externalStatus] *)
mobileMapStatus(network, raw) ==
    IF network \in DOMAIN statusMappings
    THEN OrPending(Lookup(statusMappings[network], raw))
    ELSE "pending"

(* The normalizers by the path that uses them, and the table each reads *)
Paths == {"webhook", "poll", "zenopay", "bank", "mtn", "airtel", "vodafone", "tigo", "halotel"}

EmptyTable == [k \in {} |-> ""]

TableOf(path) ==
    CASE path = "webhook" -> webhookTable
      [] path = "poll" -> pollTable
      [] path = "zenopay" -> serviceTable
      [] path = "bank" -> bankTable
      [] path \in DOMAIN statusMappings -> statusMappings[path]
      [] OTHER -> EmptyTable

mapStatus(path, raw) ==
    CASE path = "webhook" -> webhookStatusMap(raw)
      [] path = "poll" -> pollStatusMap(raw)
      [] path = "zenopay" -> serviceStatusMap(raw)
      [] path = "bank" -> bankMapStatus(raw)
      [] OTHER -> mobileMapStatus(path, raw)

ProviderStrings ==
    {"PENDING", "PROCESSING", "COMPLETED", "FAILED", "CANCELLED", "INITIATED",
     "SUCCESSFUL", "SUCCESS", "IN_PROGRESS", "SETTLED", "REJECTED", "RETURNED",
     "UNKNOWN", "completed", "constructor", "toString"}

NoNorm == [path |-> "", raw |-> "", status |-> ""]

(* Service.find({paymentId, status: 'pending'}): the documents, in _id order *)
LinkedServices(store, paymentId) ==
    {i \in 1..Len(store) : store[i].paymentId = paymentId}

PendingServices(store, paymentId) ==
    {i \in 1..Len(store) : store[i].paymentId = paymentId /\ store[i].status = "pending"}

ServiceDoc(store, i) ==
    [id |-> i, deliveryAttempts |-> store[i].deliveryAttempts,
     accessToken |-> store[i].accessToken, accessCount |-> store[i].accessCount]

RECURSIVE ServiceDocs(_, _)
ServiceDocs(store, ids) ==
    IF ids = <<>> THEN <<>>
    ELSE <<ServiceDoc(store, Head(ids))>> \o ServiceDocs(store, Tail(ids))

(* ServiceSchema.methods.activate and the assignments of
   deliverSingleService, as written by service.save() *)
activate(stored, t) ==
    [stored EXCEPT !.status = "active", !.accessGrantedAt = t,
                   !.deliveryStatus = "completed",
                   !.expiresAt = IF stored.duration # 0 THEN t + stored.duration ELSE @]

(* ServiceSchema.methods.isAccessible *)
isAccessible(d, t) ==
    /\ d.status = "active"
    /\ ~(d.expiresAt # NoTime /\ t > d.expiresAt)

(* ServiceSchema.statics.findExpired: active services past expiresAt *)
findExpired(store, t) ==
    {i \in 1..Len(store) :
        store[i].status = "active" /\ store[i].expiresAt # NoTime /\ store[i].expiresAt < t}

SaveDelivered(stored, sd, h, t) ==
    [activate(stored, t) EXCEPT
        !.deliveryAttempts = sd.deliveryAttempts + 1,
        !.accessToken = IF sd.accessToken = 0 THEN h ELSE @,
        !.activations = @ + 1]

----------------------------------------------------------------------------
Init ==
    /\ now = 0
    /\ cns = <<>>
    /\ pc = [p \in Procs |-> "idle"]
    /\ doc = [p \in Procs |-> NoDoc]
    /\ todo = [p \in Procs |-> <<>>]
    /\ reply = NoReply
    /\ okUses = <<>>
    /\ pays = <<>>
    /\ svcs = <<>>
    /\ hpc = [p \in Procs |-> "idle"]
    /\ hdoc = [p \in Procs |-> NoHandlerDoc]
    /\ norm = NoNorm

Tick ==
    /\ now < MaxTime
    /\ now' = now + 1
    /\ UNCHANGED <<reply, cnVars, payVars, norm>>

Finish(p, r) ==
    /\ pc' = [pc EXCEPT ![p] = "idle"]
    /\ doc' = [doc EXCEPT ![p] = NoDoc]
    /\ reply' = r

Goto(p, label, d) ==
    /\ pc' = [pc EXCEPT ![p] = label]
    /\ doc' = [doc EXCEPT ![p] = d]
    /\ UNCHANGED reply

Generating == {p \in Procs : pc[p] \in {"gen_find", "gen_save"}}

Room(cap) == Len(cns) + Cardinality(Generating) < cap

(* new ControlNumber(...).save(): validation, the pre-save hook's code when
   none is given, the unique index, the insert *)
Insert(p, d) ==
    IF ~SchemaValid(d)
    THEN /\ Finish(p, Failure("generate", "validation failed"))
         /\ UNCHANGED <<cns, okUses>>
    ELSE IF DuplicateKey(cns, d.controlNumber)
    THEN /\ Finish(p, Failure("generate", "duplicate key"))
         /\ UNCHANGED <<cns, okUses>>
    ELSE /\ cns' = Append(cns, d)
         /\ okUses' = Append(okUses, 0)
         /\ Finish(p, Result("generate", TRUE, "", Len(cns) + 1, d.amount, d.currency))

(* ControlNumberService.generateControlNumber *)
ServiceGenerate(p, req, cap) ==
    /\ pc[p] = "idle"
    /\ Room(cap)
    /\ IF req.amount = 0
       THEN /\ Finish(p, Failure("generate", "Amount, merchant, and generatedBy are required"))
            /\ UNCHANGED <<cns, okUses>>
       ELSE Insert(p, NewControlNumber(generateControlNumber(req.prefix, now, req.random),
                                       req.amount, req.currency, now,
                                       now + req.expiresIn, now + req.validFor,
                                       req.isReusable, req.maxUses))
    /\ UNCHANGED <<now, todo, payVars, norm>>

ServiceValidateExpiring(p, code) ==
    /\ pc[p] = "idle"
    /\ Finish(p, ValidateOutcome(cns, code, now))
    /\ cns' = [i \in DOMAIN cns |->
                  IF i = findOne(cns, toUpperCase(code), {"active"}) /\ isExpired(cns[i], now)
                  THEN [cns[i] EXCEPT !.status = "expired"]
                  ELSE cns[i]]
    /\ UNCHANGED <<now, todo, okUses, payVars, norm>>

(* ControlNumberService.validateControlNumber *)
ServiceValidate(p, code) ==
    /\ pc[p] = "idle"
    /\ Finish(p, ValidateOutcome(cns, code, now))
    /\ UNCHANGED <<now, cns, todo, okUses, payVars, norm>>

(* ControlNumberService.useControlNumber: findOne, canBeUsed, markAsUsed *)
ServiceUseRead(p, code) ==
    /\ pc[p] = "idle"
    /\ LET i == findOne(cns, toUpperCase(code), {"active"})
       IN IF UseOutcome(cns, code, now) # ""
          THEN Finish(p, Failure("use", UseOutcome(cns, code, now)))
          ELSE Goto(p, "svc_use_save",
                    [Loaded(cns, i) EXCEPT
                        !.d = markAsUsed(cns[i], [src |-> "service", n |-> now], now)])
    /\ UNCHANGED <<now, cns, todo, okUses, payVars, norm>>

(* ControlNumberService.useControlNumber: cn.save() and the success reply *)
ServiceUseSave(p) ==
    /\ pc[p] = "svc_use_save"
    /\ cns' = [cns EXCEPT ![doc[p].id] = SaveUse(@, doc[p].d)]
    /\ okUses' = [okUses EXCEPT ![doc[p].id] = @ + 1]
    /\ Finish(p, Result("use", TRUE, "", doc[p].id, doc[p].d.amount, doc[p].d.currency))
    /\ UNCHANGED <<now, todo, payVars, norm>>

(* ControlNumberService.extendControlNumber: findOne, extendValidity *)
ServiceExtendRead(p, code, days) ==
    /\ pc[p] = "idle"
    /\ LET i == findOne(cns, toUpperCase(code), {"active"})
       IN IF i = 0
          THEN Finish(p, Failure("extend", "Control number not found or not active"))
          ELSE /\ cns[i].validUntil + days <= MaxTime + 1
               /\ Goto(p, "ext_save", [Loaded(cns, i) EXCEPT !.d = extendValidity(cns[i], days)])
    /\ UNCHANGED <<now, cns, todo, okUses, payVars, norm>>

(* ControlNumberService.extendControlNumber: cn.save() *)
ServiceExtendSave(p) ==
    /\ pc[p] = "ext_save"
    /\ cns' = [cns EXCEPT ![doc[p].id] = SaveValidity(@, doc[p].d)]
    /\ UNCHANGED okUses
    /\ Finish(p, Result("extend", TRUE, "", doc[p].id, 0, ""))
    /\ UNCHANGED <<now, todo, payVars, norm>>

(* ControlNumberService.cancelControlNumber: one findOneAndUpdate *)
ServiceCancel(p, code) ==
    /\ pc[p] = "idle"
    /\ LET i == findOne(cns, toUpperCase(code), {"active"})
       IN IF i = 0
          THEN /\ Finish(p, Failure("cancel", "Control number not found or not active"))
               /\ UNCHANGED cns
          ELSE /\ cns' = [cns EXCEPT ![i].status = "cancelled"]
               /\ Finish(p, Result("cancel", TRUE, "", i, 0, ""))
    /\ UNCHANGED <<now, todo, okUses, payVars, norm>>

(* ControlNumber.findOneWithTimeout: findOne under a time limit *)
findOneWithTimeout(store, code, statuses) == findOne(store, code, statuses)

(* ControlNumber.generateControlNumber (static): a candidate with the
   default prefix *)
staticGenerateControlNumber(t, random) == generateControlNumber("ZENO", t, random)

(* ControlNumber.findExpiredWithTimeout: the active records past expiresAt,
   in _id order *)
ExpiredIds(store, t) ==
    {i \in 1..Len(store) : store[i].status = "active" /\ store[i].expiresAt < t}

RECURSIVE InOrder(_)
InOrder(S) ==
    IF S = {} THEN <<>>
    ELSE LET m == CHOOSE i \in S : \A j \in S : i <= j
         IN <<m>> \o InOrder(S \ {m})

findExpiredWithTimeout(store, t) == InOrder(ExpiredIds(store, t))

maxAttempts == 10

(* ControlNumber.validateControlNumber (static): the usable record of that
   code, 0 for null *)
staticValidateControlNumber(store, code, t) ==
    IF findOne(store, code, {"active"}) # 0 /\ canBeUsed(store[findOne(store, code, {"active"})], t)
    THEN findOne(store, code, {"active"})
    ELSE 0

(* The amount query parameter: 0 when absent *)
QueryAmounts == {0, 50, 100}

(* ControlNumberController.validateControlNumber *)
ControllerValidate(p, code, amount) ==
    /\ pc[p] = "idle"
    /\ LET i == staticValidateControlNumber(cns, code, now)
       IN IF i = 0
          THEN Finish(p, Failure("validate", "Control number not found or expired"))
          ELSE IF amount # 0 /\ amount # cns[i].amount
          THEN Finish(p, Failure("validate", "Amount mismatch"))
          ELSE Finish(p, Result("validate", TRUE, "", i, cns[i].amount, cns[i].currency))
    /\ UNCHANGED <<now, cns, todo, okUses, payVars, norm>>

(* ControlNumberController.generateControlNumber: the amount check and the
   first candidate of the do-while loop, up to its findOneWithTimeout *)
ControllerGenerateStart(p, req, random, cap) ==
    /\ pc[p] = "idle"
    /\ Room(cap)
    /\ IF req.amount <= 0
       THEN Finish(p, Failure("generate", "Valid amount is required"))
       ELSE Goto(p, "gen_find",
                 [NoDoc EXCEPT !.attempts = 1, !.req = req,
                               !.d.controlNumber = staticGenerateControlNumber(now, random)])
    /\ UNCHANGED <<now, cns, todo, okUses, payVars, norm>>

(* ControlNumberController.generateControlNumber: the loop condition, then
   either the next candidate or the document that is about to be saved *)
ControllerGenerateFind(p, random) ==
    /\ pc[p] = "gen_find"
    /\ IF findOneWithTimeout(cns, doc[p].d.controlNumber, StatusEnum) # 0
       THEN IF doc[p].attempts + 1 >= maxAttempts
            THEN Finish(p, Failure("generate", "Unable to generate unique control number"))
            ELSE Goto(p, "gen_find",
                      [doc[p] EXCEPT !.attempts = @ + 1,
                                     !.d.controlNumber = staticGenerateControlNumber(now, random)])
       ELSE Goto(p, "gen_save",
                 [doc[p] EXCEPT !.d =
                     NewControlNumber(doc[p].d.controlNumber, doc[p].req.amount,
                                      doc[p].req.currency, now,
                                      now + doc[p].req.expiresIn, now + doc[p].req.validFor,
                                      doc[p].req.isReusable, doc[p].req.maxUses)])
    /\ UNCHANGED <<now, cns, todo, okUses, payVars, norm>>

(* ControlNumberController.generateControlNumber: controlNum.save() *)
ControllerGenerateSave(p) ==
    /\ pc[p] = "gen_save"
    /\ Insert(p, doc[p].d)
    /\ UNCHANGED <<now, todo, payVars, norm>>

(* ControlNumberController.useControlNumber: findOneWithTimeout, canBeUsed,
   markAsUsed *)
ControllerUseRead(p, code, ref) ==
    /\ pc[p] = "idle"
    /\ LET i == findOneWithTimeout(cns, code, {"active"})
       IN IF i = 0
          THEN Finish(p, Failure("use", "Control number not found or already used"))
          ELSE IF ~canBeUsed(cns[i], now)
          THEN Finish(p, Failure("use", "Control number is expired or invalid"))
          ELSE IF MarkThrows(cns[i])
          THEN Finish(p, Failure("use", "Control number is not active"))
          ELSE Goto(p, "ctl_use_save",
                    [Loaded(cns, i) EXCEPT
                        !.d = markAsUsed(cns[i], [src |-> "request", n |-> ref], now)])
    /\ UNCHANGED <<now, cns, todo, okUses, payVars, norm>>

(* ControlNumberController.useControlNumber: controlNum.save() and the
   success reply *)
ControllerUseSave(p) ==
    /\ pc[p] = "ctl_use_save"
    /\ cns' = [cns EXCEPT ![doc[p].id] = SaveUse(@, doc[p].d)]
    /\ okUses' = [okUses EXCEPT ![doc[p].id] = @ + 1]
    /\ Finish(p, Result("use", TRUE, "", doc[p].id, doc[p].d.amount, doc[p].d.currency))
    /\ UNCHANGED <<now, todo, payVars, norm>>

(* ControlNumberController.cleanupExpired: findExpiredWithTimeout *)
CleanupRead(p) ==
    /\ pc[p] = "idle"
    /\ IF findExpiredWithTimeout(cns, now) = <<>>
       THEN /\ Finish(p, Result("cleanup", TRUE, "", 0, 0, ""))
            /\ UNCHANGED todo
       ELSE /\ Goto(p, "sweep", NoDoc)
            /\ todo' = [todo EXCEPT ![p] = findExpiredWithTimeout(cns, now)]
    /\ UNCHANGED <<now, cns, okUses, payVars, norm>>

(* ControlNumberController.cleanupExpired: one turn of the loop,
   controlNum.status = 'expired'; controlNum.save() *)
CleanupSave(p) ==
    /\ pc[p] = "sweep"
    /\ cns' = [cns EXCEPT ![Head(todo[p])] = SaveStatus(@, [status |-> "expired"])]
    /\ todo' = [todo EXCEPT ![p] = Tail(@)]
    /\ IF Tail(todo[p]) = <<>>
       THEN Finish(p, Result("cleanup", TRUE, "", 0, 0, ""))
       ELSE UNCHANGED <<pc, doc, reply>>
    /\ UNCHANGED <<now, okUses, payVars, norm>>

CnNext ==
    \/ Tick
    \/ \E p \in Procs, req \in LifeRequests : ServiceGenerate(p, req, MaxCodes)
    \/ \E p \in Procs, code \in Presented : ServiceValidate(p, code)
    \/ \E p \in Procs, code \in Presented, amount \in QueryAmounts :
          ControllerValidate(p, code, amount)
    \/ \E p \in Procs, code \in Presented : ServiceUseRead(p, code)
    \/ \E p \in Procs : ServiceUseSave(p)
    \/ \E p \in Procs, code \in Presented, ref \in PaymentRefs : ControllerUseRead(p, code, ref)
    \/ \E p \in Procs : ControllerUseSave(p)
    \/ \E p \in Procs, code \in Presented : ServiceExtendRead(p, code, 1)
    \/ \E p \in Procs : ServiceExtendSave(p)
    \/ \E p \in Procs, code \in Presented : ServiceCancel(p, code)
    \/ \E p \in Procs : CleanupRead(p)
    \/ \E p \in Procs : CleanupSave(p)

Spec == Init /\ [][CnNext]_vars

(* Issuing control numbers: both generation paths and validation *)
GenNext ==
    \/ Tick
    \/ \E p \in Procs, req \in GenRequests : ServiceGenerate(p, req, MaxBatch)
    \/ \E p \in Procs, req \in GenRequests, random \in Randoms :
          ControllerGenerateStart(p, req, random, MaxBatch)
    \/ \E p \in Procs, random \in Randoms : ControllerGenerateFind(p, random)
    \/ \E p \in Procs : ControllerGenerateSave(p)
    \/ \E p \in Procs, code \in Presented : ServiceValidate(p, code)

GenSpec == Init /\ [][GenNext]_vars

----------------------------------------------------------------------------
(* The payment ledger, reconciliation and service delivery *)

Done(h, r) ==
    /\ hpc' = [hpc EXCEPT ![h] = "idle"]
    /\ hdoc' = [hdoc EXCEPT ![h] = NoHandlerDoc]
    /\ reply' = r

Step(h, label, d) ==
    /\ hpc' = [hpc EXCEPT ![h] = label]
    /\ hdoc' = [hdoc EXCEPT ![h] = d]
    /\ UNCHANGED reply

Orders == 0..MaxPayments

Found(order) == order \in 1..Len(pays)

Updating(order) == {h \in Procs : hdoc[h].pay = order /\ hdoc[h].modified}

HistoryRoom(order) ==
    Len(pays[order].statusHistory) + Cardinality(Updating(order)) < MaxHistory

(* ServiceController.initiateServicePayment: a pending Service linked to a
   new pending Payment *)
InitiateServicePayment(duration, cap) ==
    /\ Len(pays) < cap
    /\ svcs' = Append(svcs, NewService(Len(pays) + 1, duration))
    /\ pays' = Append(pays, NewPayment)
    /\ reply' = Result("initiate", TRUE, "", Len(pays) + 1, 0, "")
    /\ UNCHANGED <<now, hpc, hdoc, cnVars, norm>>

(* WebhookController.handleZenopayWebhook: Payment.findOne, the status map,
   updateStatus *)
WebhookFind(h, order, raw) ==
    /\ hpc[h] = "idle"
    /\ IF ~Found(order)
       THEN Done(h, Failure("webhook", "Payment not found"))
       ELSE IF pays[order].status = webhookStatusMap(raw)
       THEN Done(h, Result("webhook", TRUE, "status unchanged", order, 0, ""))
       ELSE /\ HistoryRoom(order)
            /\ Step(h, "webhook_save",
                    updateStatus(order, pays[order], webhookStatusMap(raw), now))
    /\ UNCHANGED <<now, pays, svcs, cnVars, norm>>

(* WebhookController.handleZenopayWebhook: payment.save(), then the
   delivery when the new status is completed *)
WebhookSave(h) ==
    /\ hpc[h] = "webhook_save"
    /\ IF ~PaymentValid(hdoc[h])
       THEN /\ Done(h, Failure("webhook", "Webhook processing failed"))
            /\ UNCHANGED pays
       ELSE /\ pays' = [pays EXCEPT ![hdoc[h].pay] = SavePayment(@, hdoc[h])]
            /\ IF hdoc[h].status = "completed"
               THEN Step(h, "deliver_find", [hdoc[h] EXCEPT !.modified = FALSE])
               ELSE Done(h, Result("webhook", TRUE, "status updated", hdoc[h].pay, 0, ""))
    /\ UNCHANGED <<now, svcs, cnVars, norm>>

(* WebhookController.deliverServices: Service.find *)
DeliverFind(h) ==
    /\ hpc[h] = "deliver_find"
    /\ IF PendingServices(svcs, hdoc[h].pay) = {}
       THEN Done(h, Result("webhook", TRUE, "no pending services", hdoc[h].pay, 0, ""))
       ELSE Step(h, "deliver",
                 [hdoc[h] EXCEPT !.queue =
                     ServiceDocs(svcs, InOrder(PendingServices(svcs, hdoc[h].pay)))])
    /\ UNCHANGED <<now, pays, svcs, cnVars, norm>>

(* WebhookController.deliverSingleService for the next document of the loop *)
DeliverSingle(h) ==
    /\ hpc[h] = "deliver"
    /\ svcs' = [svcs EXCEPT ![Head(hdoc[h].queue).id] =
                   SaveDelivered(@, Head(hdoc[h].queue), h, now)]
    /\ IF Tail(hdoc[h].queue) = <<>>
       THEN Done(h, Result("webhook", TRUE, "status updated", hdoc[h].pay, 0, ""))
       ELSE Step(h, "deliver", [hdoc[h] EXCEPT !.queue = Tail(@)])
    /\ UNCHANGED <<now, pays, cnVars, norm>>

(* PaymentController.checkPaymentStatus: the provider's answer,
   Payment.findOne, the status map, updateStatus *)
PollFind(h, order, raw) ==
    /\ hpc[h] = "idle"
    /\ IF ~Found(order) \/ pays[order].status = pollStatusMap(raw)
       THEN Done(h, Result("poll", TRUE, "", 0, 0, ""))
       ELSE /\ HistoryRoom(order)
            /\ Step(h, "poll_save",
                    updateStatus(order, pays[order], pollStatusMap(raw), now))
    /\ UNCHANGED <<now, pays, svcs, cnVars, norm>>

(* PaymentController.checkPaymentStatus: payment.save() *)
PollSave(h) ==
    /\ hpc[h] = "poll_save"
    /\ pays' = [pays EXCEPT ![hdoc[h].pay] =
                   IF PaymentValid(hdoc[h]) THEN SavePayment(@, hdoc[h]) ELSE @]
    /\ Done(h, Result("poll", TRUE, "", hdoc[h].pay, 0, ""))
    /\ UNCHANGED <<now, svcs, cnVars, norm>>

(* BankPaymentService.handleCallback: Payment.findOne, mapStatus,
   updateStatus *)
CallbackFind(h, order, raw) ==
    /\ hpc[h] = "idle"
    /\ IF ~Found(order)
       THEN Done(h, Failure("callback", "Payment not found for reference"))
       ELSE /\ pays[order].status # bankMapStatus(raw) => HistoryRoom(order)
            /\ Step(h, "callback_save",
                    updateStatus(order, pays[order], bankMapStatus(raw), now))
    /\ UNCHANGED <<now, pays, svcs, cnVars, norm>>

(* BankPaymentService.handleCallback: transaction.save(), payment.save() *)
CallbackSave(h) ==
    /\ hpc[h] = "callback_save"
    /\ IF ~hdoc[h].modified
       THEN /\ Done(h, Result("callback", TRUE, "", hdoc[h].pay, 0, ""))
            /\ UNCHANGED pays
       ELSE IF ~PaymentValid(hdoc[h])
       THEN /\ Done(h, Failure("callback", "validation failed"))
            /\ UNCHANGED pays
       ELSE /\ pays' = [pays EXCEPT ![hdoc[h].pay] = SavePayment(@, hdoc[h])]
            /\ Done(h, Result("callback", TRUE, "", hdoc[h].pay, 0, ""))
    /\ UNCHANGED <<now, svcs, cnVars, norm>>

(* ZenopayService.handleWebhook: Payment.findOne, the status map,
   updateStatus; a payment that is not found is skipped and the event is
   reported as processed *)
ZenopayFind(h, order, raw) ==
    /\ hpc[h] = "idle"
    /\ IF ~Found(order)
       THEN Done(h, Result("zenopay", TRUE, "processed", 0, 0, ""))
       ELSE /\ pays[order].status # serviceStatusMap(raw) => HistoryRoom(order)
            /\ Step(h, "zenopay_save",
                    updateStatus(order, pays[order], serviceStatusMap(raw), now))
    /\ UNCHANGED <<now, pays, svcs, cnVars, norm>>

(* ZenopayService.handleWebhook: payment.save(); a database error is logged
   and the event is reported as processed *)
ZenopaySave(h) ==
    /\ hpc[h] = "zenopay_save"
    /\ pays' = [pays EXCEPT ![hdoc[h].pay] =
                   IF hdoc[h].modified /\ PaymentValid(hdoc[h])
                   THEN SavePayment(@, hdoc[h]) ELSE @]
    /\ Done(h, Result("zenopay", TRUE, "processed", hdoc[h].pay, 0, ""))
    /\ UNCHANGED <<now, svcs, cnVars, norm>>

(* The provider's answers to an initiation: a status, or no answer (network
   error, timeout, rejection) *)
ProviderResults == {"COMPLETED", "PENDING", "ERROR"}

(* PaymentController.initiateMobileMoneyPayment: the provider call, then the
   new Payment (no Service is linked to it), then deliverServices when the
   provider reports COMPLETED at once.  dbOk: whether payment.save() succeeds;
   its error is swallowed. *)
InitiateMobileMoneyPayment(result, dbOk) ==
    /\ Len(pays) < MaxPayments
    /\ IF result = "ERROR"
       THEN /\ reply' = Failure("initiate", "Payment initiation failed")
            /\ UNCHANGED pays
       ELSE /\ pays' = IF dbOk
                       THEN Append(pays, [NewPayment EXCEPT
                                !.status = IF result = "COMPLETED" THEN "completed" ELSE "pending"])
                       ELSE pays
            /\ reply' = Result("initiate", TRUE, result, 0, 0, "")
    /\ UNCHANGED <<now, svcs, hpc, hdoc, cnVars, norm>>

PayNext ==
    \/ Tick
    \/ \E duration \in Durations : InitiateServicePayment(duration, MaxPayments)
    \/ \E h \in Procs, order \in Orders, raw \in RawStatuses : WebhookFind(h, order, raw)
    \/ \E h \in Procs : WebhookSave(h)
    \/ \E h \in Procs : DeliverFind(h)
    \/ \E h \in Procs : DeliverSingle(h)
    \/ \E h \in Procs, order \in Orders, raw \in RawStatuses : PollFind(h, order, raw)
    \/ \E h \in Procs : PollSave(h)
    \/ \E h \in Procs, order \in Orders, raw \in RawStatuses : CallbackFind(h, order, raw)
    \/ \E h \in Procs : CallbackSave(h)
    \/ \E h \in Procs, order \in Orders, raw \in RawStatuses : ZenopayFind(h, order, raw)
    \/ \E h \in Procs : ZenopaySave(h)
    \/ \E result \in ProviderResults, dbOk \in BOOLEAN : InitiateMobileMoneyPayment(result, dbOk)

PaySpec == Init /\ [][PayNext]_vars

----------------------------------------------------------------------------
(* Service access and service expiry *)

(* ServiceController.checkServiceAccess: Service.findOne with its payment
   populated, the payment check, activate() when the service is not active *)
AccessRead(h, sid) ==
    /\ hpc[h] = "idle"
    /\ IF sid \notin 1..Len(svcs)
       THEN Done(h, Failure("access", "Service not found"))
       ELSE IF pays[svcs[sid].paymentId].status # "completed"
       THEN Done(h, Failure("access", "Payment required"))
       ELSE /\ svcs[sid].accessCount < MaxAccess
            /\ Step(h, IF svcs[sid].status # "active" THEN "access_activate" ELSE "access_record",
                    [NoHandlerDoc EXCEPT !.at = now, !.queue = <<ServiceDoc(svcs, sid)>>])
    /\ UNCHANGED <<now, pays, svcs, cnVars, norm>>

(* ServiceController.checkServiceAccess: service.save() after activate() *)
AccessActivate(h) ==
    /\ hpc[h] = "access_activate"
    /\ svcs' = [svcs EXCEPT ![Head(hdoc[h].queue).id] =
                   [activate(@, hdoc[h].at) EXCEPT !.activations = @ + 1]]
    /\ Step(h, "access_record", hdoc[h])
    /\ UNCHANGED <<now, pays, cnVars, norm>>

(* ServiceController.checkServiceAccess: service.save() after recordAccess()
   and the reply that grants access *)
AccessRecord(h) ==
    /\ hpc[h] = "access_record"
    /\ svcs' = [svcs EXCEPT ![Head(hdoc[h].queue).id].accessCount =
                   Head(hdoc[h].queue).accessCount + 1]
    /\ Done(h, Result("access", TRUE, "", Head(hdoc[h].queue).id, 0, ""))
    /\ UNCHANGED <<now, pays, cnVars, norm>>

(* ServiceController.checkExpiredServices: Service.findExpired *)
ExpireRead(h) ==
    /\ hpc[h] = "idle"
    /\ IF findExpired(svcs, now) = {}
       THEN Done(h, Result("expire", TRUE, "", 0, 0, ""))
       ELSE Step(h, "expire", [NoHandlerDoc EXCEPT !.queue =
                                  ServiceDocs(svcs, InOrder(findExpired(svcs, now)))])
    /\ UNCHANGED <<now, pays, svcs, cnVars, norm>>

(* ServiceController.checkExpiredServices: one turn of the loop,
   service.status = 'expired'; service.save() *)
ExpireSave(h) ==
    /\ hpc[h] = "expire"
    /\ svcs' = [svcs EXCEPT ![Head(hdoc[h].queue).id].status = "expired"]
    /\ IF Tail(hdoc[h].queue) = <<>>
       THEN Done(h, Result("expire", TRUE, "", 0, 0, ""))
       ELSE Step(h, "expire", [hdoc[h] EXCEPT !.queue = Tail(@)])
    /\ UNCHANGED <<now, pays, cnVars, norm>>

(* Service access: one payment with its linked service, its completion by
   webhook, delivery, access checks and the expiry check *)
SvcNext ==
    \/ Tick
    \/ \E duration \in Durations : InitiateServicePayment(duration, MaxPayments)
    \/ \E h \in Procs, order \in Orders : WebhookFind(h, order, "COMPLETED")
    \/ \E h \in Procs : WebhookSave(h)
    \/ \E h \in Procs : DeliverFind(h)
    \/ \E h \in Procs : DeliverSingle(h)
    \/ \E h \in Procs, sid \in Orders : AccessRead(h, sid)
    \/ \E h \in Procs : AccessActivate(h)
    \/ \E h \in Procs : AccessRecord(h)
    \/ \E h \in Procs : ExpireRead(h)
    \/ \E h \in Procs : ExpireSave(h)

SvcSpec == Init /\ [][SvcNext]_vars

(* Delivery to several payments: payments with a linked service each, their
   completion by webhook, delivery and the expiry check *)
FrameNext ==
    \/ Tick
    \/ \E duration \in Durations : InitiateServicePayment(duration, MaxLinked)
    \/ \E h \in Procs, order \in 1..MaxLinked : WebhookFind(h, order, "COMPLETED")
    \/ \E h \in Procs : WebhookSave(h)
    \/ \E h \in Procs : DeliverFind(h)
    \/ \E h \in Procs : DeliverSingle(h)
    \/ \E h \in Procs : ExpireRead(h)
    \/ \E h \in Procs : ExpireSave(h)

FrameSpec == Init /\ [][FrameNext]_vars

----------------------------------------------------------------------------
(* Delivery of a batch with a failing store *)

(* A further pending Service document linked to an existing payment: the
   schema indexes paymentId without making it unique *)
LinkService(duration) ==
    /\ Len(pays) > 0
    /\ Len(svcs) < Len(pays) + MaxSiblings
    /\ svcs' = Append(svcs, NewService(Len(pays), duration))
    /\ UNCHANGED <<now, reply, pays, hpc, hdoc, cnVars, norm>>

(* What the save() of the catch block writes when it goes through: every
   path the try block assigned and deliveryStatus = 'failed' *)
SaveFailed(stored, sd, h, t) ==
    [SaveDelivered(stored, sd, h, t) EXCEPT !.deliveryStatus = "failed"]

(* WebhookController.deliverSingleService when service.save() throws: the
   catch block saves again; when that save throws too the error leaves the
   loop of deliverServices, whose catch logs it *)
DeliverSingleFailing(h, recorded) ==
    /\ hpc[h] = "deliver"
    /\ IF recorded
       THEN /\ svcs' = [svcs EXCEPT ![Head(hdoc[h].queue).id] =
                           SaveFailed(@, Head(hdoc[h].queue), h, now)]
            /\ IF Tail(hdoc[h].queue) = <<>>
               THEN Done(h, Result("webhook", TRUE, "status updated", hdoc[h].pay, 0, ""))
               ELSE Step(h, "deliver", [hdoc[h] EXCEPT !.queue = Tail(@)])
       ELSE /\ svcs' = svcs
            /\ Done(h, Result("webhook", TRUE, "delivery aborted", hdoc[h].pay, 0, ""))
    /\ UNCHANGED <<now, pays, cnVars, norm>>

BatchNext ==
    \/ Tick
    \/ \E duration \in Durations : InitiateServicePayment(duration, MaxPayments)
    \/ \E duration \in Durations : LinkService(duration)
    \/ \E h \in Procs, order \in 1..MaxPayments : WebhookFind(h, order, "COMPLETED")
    \/ \E h \in Procs : WebhookSave(h)
    \/ \E h \in Procs : DeliverFind(h)
    \/ \E h \in Procs : DeliverSingle(h)
    \/ \E h \in Procs, recorded \in BOOLEAN : DeliverSingleFailing(h, recorded)

BatchSpec == Init /\ [][BatchNext]_vars

----------------------------------------------------------------------------
(* Polling next to the webhook *)

bankPollTable ==
    [COMPLETED |-> "completed", PENDING |-> "pending", PROCESSING |-> "processing",
     FAILED |-> "failed", CANCELLED |-> "cancelled"]

bankPollStatusMap(raw) == OrPending(Lookup(bankPollTable, raw))

(* PaymentController.checkBankTransferStatus: the provider's answer,
   Payment.findOne, the status map, updateStatus *)
BankPollFind(h, order, raw) ==
    /\ hpc[h] = "idle"
    /\ IF ~Found(order) \/ pays[order].status = bankPollStatusMap(raw)
       THEN Done(h, Result("bankpoll", TRUE, "", 0, 0, ""))
       ELSE /\ HistoryRoom(order)
            /\ Step(h, "bankpoll_save",
                    updateStatus(order, pays[order], bankPollStatusMap(raw), now))
    /\ UNCHANGED <<now, pays, svcs, cnVars, norm>>

(* PaymentController.checkBankTransferStatus: payment.save(), whose error
   is swallowed *)
BankPollSave(h) ==
    /\ hpc[h] = "bankpoll_save"
    /\ pays' = [pays EXCEPT ![hdoc[h].pay] =
                   IF PaymentValid(hdoc[h]) THEN SavePayment(@, hdoc[h]) ELSE @]
    /\ Done(h, Result("bankpoll", TRUE, "", hdoc[h].pay, 0, ""))
    /\ UNCHANGED <<now, svcs, cnVars, norm>>

PollNext ==
    \/ Tick
    \/ \E duration \in Durations : InitiateServicePayment(duration, MaxPayments)
    \/ \E h \in Procs, order \in Orders, raw \in RawStatuses : WebhookFind(h, order, raw)
    \/ \E h \in Procs : WebhookSave(h)
    \/ \E h \in Procs : DeliverFind(h)
    \/ \E h \in Procs : DeliverSingle(h)
    \/ \E h \in Procs, order \in Orders, raw \in RawStatuses : PollFind(h, order, raw)
    \/ \E h \in Procs : PollSave(h)
    \/ \E h \in Procs, order \in Orders, raw \in RawStatuses : BankPollFind(h, order, raw)
    \/ \E h \in Procs : BankPollSave(h)

PollSpec == Init /\ [][PollNext]_vars

----------------------------------------------------------------------------
(* Paying a control number by mobile money *)

(* MobileMoneyService.processControlNumberPayment (mobileMoneyService.js):
   findOne on the code as given with status active, the amount check *)
ProcessRead(p, code, amount) ==
    /\ pc[p] = "idle"
    /\ LET i == findOne(cns, code, {"active"})
       IN IF i = 0
          THEN Finish(p, Failure("process", "Invalid or expired control number"))
          ELSE IF cns[i].amount # amount
          THEN Finish(p, Failure("process", "Amount does not match control number amount"))
          ELSE Goto(p, "proc_initiate", Loaded(cns, i))
    /\ UNCHANGED <<now, cns, todo, okUses, payVars, norm>>

(* The same read in part_010: ControlNumber.validateControlNumber *)
ZenoProcessRead(p, code, amount) ==
    /\ pc[p] = "idle"
    /\ LET i == staticValidateControlNumber(cns, code, now)
       IN IF i = 0
          THEN Finish(p, Failure("process", "Invalid or expired control number"))
          ELSE IF cns[i].amount # amount
          THEN Finish(p, Failure("process", "Amount does not match control number amount"))
          ELSE Goto(p, "zproc_initiate", Loaded(cns, i))
    /\ UNCHANGED <<now, cns, todo, okUses, payVars, norm>>

(* What a failed provider call leaves in the payment store *)
SavedBeforeInitiate(store) == Append(store, NewPayment)

SavedOnFailure(store) == store

(* processControlNumberPayment (mobileMoneyService.js): initiatePayment,
   then markAsUsed on the document that was read *)
ProcessInitiate(p, result) ==
    /\ pc[p] = "proc_initiate"
    /\ IF result = "ERROR"
       THEN /\ Finish(p, Failure("process", "Mobile money payment initiation failed"))
            /\ pays' = SavedOnFailure(pays)
       ELSE /\ Goto(p, "proc_save",
                    [doc[p] EXCEPT !.d = markAsUsed(@, [src |-> "provider", n |-> now], now)])
            /\ UNCHANGED pays
    /\ UNCHANGED <<now, cns, todo, okUses, svcs, hpc, hdoc, norm>>

(* processControlNumberPayment (part_010): initiateMobileMoneyPayment, then
   payment.save() of the new Payment, then markAsUsed *)
ZenoProcessInitiate(p, result) ==
    /\ pc[p] = "zproc_initiate"
    /\ Len(pays) < MaxInitiations
    /\ IF result = "ERROR"
       THEN /\ Finish(p, Failure("process", "Payment initiation failed"))
            /\ pays' = SavedOnFailure(pays)
       ELSE /\ pays' = Append(pays, [NewPayment EXCEPT
                          !.status = IF result = "COMPLETED" THEN "completed" ELSE "pending"])
            /\ Goto(p, "proc_save",
                    [doc[p] EXCEPT !.d = markAsUsed(@, [src |-> "payment", n |-> Len(pays) + 1], now)])
    /\ UNCHANGED <<now, cns, todo, okUses, svcs, hpc, hdoc, norm>>

(* processControlNumberPayment: the control number's save() and the success
   reply *)
ProcessSave(p) ==
    /\ pc[p] = "proc_save"
    /\ cns' = [cns EXCEPT ![doc[p].id] = SaveUse(@, doc[p].d)]
    /\ okUses' = [okUses EXCEPT ![doc[p].id] = @ + 1]
    /\ Finish(p, Result("process", TRUE, "", doc[p].id, doc[p].d.amount, doc[p].d.currency))
    /\ UNCHANGED <<now, todo, payVars, norm>>

ProcNext ==
    \/ Tick
    \/ \E p \in Procs, req \in LifeRequests : ServiceGenerate(p, req, MaxCodes)
    \/ \E p \in Procs, code \in Presented, amount \in QueryAmounts : ProcessRead(p, code, amount)
    \/ \E p \in Procs, code \in Presented, amount \in QueryAmounts :
          ZenoProcessRead(p, code, amount)
    \/ \E p \in Procs, result \in ProviderResults : ProcessInitiate(p, result)
    \/ \E p \in Procs, result \in ProviderResults : ZenoProcessInitiate(p, result)
    \/ \E p \in Procs : ProcessSave(p)

ProcSpec == Init /\ [][ProcNext]_vars

----------------------------------------------------------------------------
(* Status normalization on its own: a path's mapStatus applied to a provider
   status string *)
Normalize(path, raw) ==
    /\ norm' = [path |-> path, raw |-> raw, status |-> mapStatus(path, raw)]
    /\ UNCHANGED <<now, reply, cnVars, payVars>>

MapNext == \E path \in Paths, raw \in ProviderStrings : Normalize(path, raw)

MapSpec == Init /\ [][MapNext]_vars

----------------------------------------------------------------------------
(* Properties of the control-number registry *)

UpperCased(i) == toUpperCase(cns[i].controlNumber) = cns[i].controlNumber

Fresh(i) ==
    /\ cns[i].createdAt = now
    /\ cns[i].status = "active"
    /\ cns[i].currentUses = 0

(* C1: of the redeem attempts made concurrently on an active single-use
   control number, exactly one reports success; the others fail.  Stated on
   the count of success replies: a single-use control number never has more
   than one. *)
C1_OneRedeemSucceeds ==
    \A i \in Ids : cns[i].maxUses = 1 => okUses[i] <= 1

(* C4: in every reachable state currentUses <= maxUses, for every control
   number, whatever generate, redeem, cancel, extend and sweep steps have
   interleaved. *)
C4_UsesWithinLimit ==
    \A i \in Ids : cns[i].currentUses <= cns[i].maxUses

C4_Witness ==
    \E i \in Ids : okUses[i] >= 2 /\ cns[i].currentUses = cns[i].maxUses

(* C5: a control number's status only moves forward: once it is used,
   expired or cancelled, no step changes it. *)
C5_StatusOnlyForward ==
    [][\A i \in Ids : cns[i].status \in TerminalCn => cns'[i].status = cns[i].status]_vars

(* C7: while a control number is still active and its validUntil is in the
   past, whether or not expiresAt is past too, validate answers invalid with
   the reason expired and redeem fails. *)
C7_ExpiredByValidUntil ==
    \A i \in Ids :
        (cns[i].status = "active" /\ now > cns[i].validUntil /\ UpperCased(i)) =>
            /\ ValidateOutcome(cns, cns[i].controlNumber, now).msg = "Control number has expired"
            /\ UseOutcome(cns, cns[i].controlNumber, now) # ""

(* C8: for a single-use control number, validate after generate is valid and
   the first redeem goes through; once it is used, every further redeem fails
   with the not-active error. *)
C8_SingleUseScenario ==
    \A i \in Ids :
        cns[i].maxUses = 1 =>
            /\ Fresh(i) =>
                /\ ValidateOutcome(cns, cns[i].controlNumber, now).ok
                /\ UseOutcome(cns, cns[i].controlNumber, now) = ""
            /\ cns[i].status = "used" =>
                UseOutcome(cns, cns[i].controlNumber, now) = "Control number not found or not active"

(* C9: the control numbers issued to concurrent generation requests are
   pairwise distinct: no two stored records share a code. *)
C9_CodesDistinct ==
    \A i, j \in Ids : i # j => cns[i].controlNumber # cns[j].controlNumber

C9_Witness ==
    /\ Len(cns) >= 2
    /\ cns[1].createdAt = cns[2].createdAt
    /\ reply.op = "generate" /\ reply.ok

(* C10: round trip: validate called with the code that generate has just
   returned is valid and carries the amount and the currency of the
   generation request. *)
C10_RoundTrip ==
    (reply.op = "generate" /\ reply.ok /\ cns[reply.id].createdAt = now) =>
        LET r == ValidateOutcome(cns, cns[reply.id].controlNumber, now)
        IN r.ok /\ r.amount = reply.amount /\ r.currency = reply.currency

(* C16: validate is read-only: a validate call, on any code, leaves every
   control-number record unchanged. *)
C16_ValidateReadOnly ==
    [][(reply' # reply /\ reply'.op = "validate") => cns' = cns]_vars

C16_Witness ==
    /\ reply.op = "validate"
    /\ reply.msg = "Control number has expired"
    /\ \E i \in Ids : cns[i].status = "active" /\ isExpired(cns[i], now)

----------------------------------------------------------------------------
(* Properties of the payment ledger *)

PayIds == 1..Len(pays)
SvcIds == 1..Len(svcs)

(* C2: once a payment is completed, failed or cancelled, no later status
   update from the provider changes its stored status. *)
C2_TerminalSticky ==
    [][\A i \in PayIds :
          pays[i].status \in TerminalPayment => pays'[i].status = pays[i].status]_vars

(* C3: a completed notification delivered more than once for a payment
   activates each of its services once: no service is ever activated (its
   access grant written) a second time. *)
C3_ActivatedOnce == \A s \in SvcIds : svcs[s].activations <= 1

(* C6: a payment's stored status moves only along pending -> processing ->
   completed / failed / cancelled; no other change of status happens. *)
AllowedPaymentMove(old, new) ==
    \/ old = "pending" /\ new \in {"processing"} \cup TerminalPayment
    \/ old = "processing" /\ new \in TerminalPayment

C6_PaymentStateMachine ==
    [][\A i \in PayIds :
          pays'[i].status # pays[i].status
              => AllowedPaymentMove(pays[i].status, pays'[i].status)]_vars

Quiescent == \A h \in Procs : hpc[h] = "idle"

(* C11: whichever path records a payment as completed, every pending service
   linked to it is activated without a further external event.  Stated on
   the states where every handler has returned, after which nothing more
   happens by itself: there, no completed payment has a pending service. *)
C11_CompletedDelivers ==
    Quiescent =>
        \A s \in SvcIds :
            pays[svcs[s].paymentId].status = "completed" => svcs[s].status # "pending"

(* C15: when the provider call of an initiation fails, the caller is told
   pending, never a failure. *)
C15_ProviderFailureIsPending ==
    ~(reply.op = "initiate" /\ ~reply.ok)

(* C12: checkServiceAccess grants access only to a service that, when it
   is checked, is active and not past its expiresAt: a check that goes on to
   grant access has read an accessible service. *)
C12_AccessOnlyIfAccessible ==
    [][\A h \in Procs :
          (hpc[h] = "idle" /\ hpc'[h] \in {"access_activate", "access_record"})
              => isAccessible(svcs[Head(hdoc'[h].queue).id], now)]_vars

(* C20: deliverServices touches only the pending services of its payment:
   the services it selects are linked to the payment and pending, with none
   selected it returns without a write, each of its writes goes to a selected
   service of that payment, and a service that has left pending never
   becomes pending again. *)
C20_DeliverFrame ==
    [][\A h \in Procs :
          /\ (hpc[h] = "deliver_find" /\ hpc'[h] # "deliver_find") =>
                /\ svcs' = svcs
                /\ \A k \in 1..Len(hdoc'[h].queue) :
                      /\ svcs[hdoc'[h].queue[k].id].paymentId = hdoc[h].pay
                      /\ svcs[hdoc'[h].queue[k].id].status = "pending"
                /\ PendingServices(svcs, hdoc[h].pay) = {} => hpc'[h] = "idle"
          /\ (hpc[h] = "deliver" /\ hdoc'[h] # hdoc[h]) =>
                \A s \in SvcIds :
                    svcs'[s] # svcs[s] =>
                        s = Head(hdoc[h].queue).id /\ svcs[s].paymentId = hdoc[h].pay
          /\ \A s \in SvcIds : svcs[s].status # "pending" => svcs'[s].status # "pending"]_vars

C20_Witness ==
    /\ reply.msg = "no pending services"
    /\ Len(svcs) = 2
    /\ svcs[1].paymentId # svcs[2].paymentId
    /\ svcs[reply.id].status \in {"active", "expired"}
    /\ \E s \in SvcIds : svcs[s].status = "pending"

EventOps == {"webhook", "zenopay", "callback"}

(* C13: a status event whose payment cannot be found is answered with an
   error, never as accepted or processed, and changes no payment and no
   service. *)
C13_NotFoundRejected ==
    [][(reply' # reply /\ reply'.op \in EventOps /\ reply'.id = 0)
          => (~reply'.ok /\ pays' = pays /\ svcs' = svcs)]_vars

Canonical == {"pending", "processing", "completed", "failed", "cancelled"}

(* C14: normalization gives one of pending, processing, completed, failed,
   cancelled for every provider status string: the table's entry for a
   string in the path's table, pending for every other string. *)
C14_Normalization ==
    norm # NoNorm =>
        /\ norm.status \in Canonical
        /\ norm.raw \in DOMAIN TableOf(norm.path) => norm.status = TableOf(norm.path)[norm.raw]
        /\ norm.raw \notin DOMAIN TableOf(norm.path) => norm.status = "pending"

SavePcs == {"webhook_save", "poll_save", "zenopay_save", "callback_save"}

(* C17: applying to a payment the status it already has is a no-op.  A
   handler marks its document modified only when the status it read differs
   from the event's; without a modified document it writes nothing and
   starts no delivery; and a payment is written by such a save only. *)
C17_SameStatusNoOp ==
    [][/\ \A h \in Procs :
            /\ (hpc[h] = "idle" /\ hpc'[h] \in SavePcs /\ hdoc'[h].modified)
                  => pays[hdoc'[h].pay].status # hdoc'[h].status
            /\ (hpc[h] \in SavePcs /\ hpc'[h] # hpc[h] /\ ~hdoc[h].modified)
                  => (pays' = pays /\ svcs' = svcs /\ hpc'[h] = "idle")
            /\ (hpc[h] = "idle" /\ hpc'[h] # "idle")
                  => (hpc'[h] \in SavePcs /\ pays' = pays /\ svcs' = svcs)
       /\ (pays' # pays /\ Len(pays') = Len(pays))
             => \E h \in Procs : hpc[h] \in SavePcs /\ hpc'[h] # hpc[h] /\ hdoc[h].modified]_vars

C17_Witness ==
    /\ reply.op = "webhook"
    /\ reply.msg = "status unchanged"
    /\ pays[reply.id].status = "completed"
    /\ Len(pays[reply.id].statusHistory) = 1

(* C18: a successful redeem of a code that no other handler touched since it
   was read increments currentUses by exactly 1 and leaves the status active
   when the code is reusable and the new currentUses is below maxUses, used
   otherwise (so that a reusable code with maxUses = k can be redeemed k
   times in sequence) *)
UsePcs == {"svc_use_save", "ctl_use_save"}

RedeemSucceeds(p) == pc[p] \in UsePcs /\ pc'[p] = "idle"

Undisturbed(p) ==
    /\ cns[doc[p].id].status = "active"
    /\ cns[doc[p].id].currentUses + 1 = doc[p].d.currentUses

C18_ReusableStaysActive ==
    [][\A p \in Procs :
          (RedeemSucceeds(p) /\ Undisturbed(p))
              => LET old == cns[doc[p].id]
                     new == cns'[doc[p].id]
                 IN /\ new.currentUses = old.currentUses + 1
                    /\ new.status = IF new.isReusable /\ new.currentUses < new.maxUses
                                    THEN "active" ELSE "used"]_vars

(* C19: the expiry sweep and a redeem of the same code do not overwrite each
   other: the sweep never marks expired a code whose redeem reported
   success, and a redeem never reports success for a code whose stored
   status is expired *)
SweepStep(p) == pc[p] = "sweep" /\ todo'[p] # todo[p]

C19_SweepSafeWithRedeem ==
    [][\A p \in Procs :
          /\ SweepStep(p) => okUses[Head(todo[p])] = 0
          /\ RedeemSucceeds(p) => cns[doc[p].id].status # "expired"]_vars

(* C21: a failing save while one service of a batch is delivered touches only
   that service and does not stop the loop: the services still queued are
   delivered next, also when the save that records the failure fails *)
C21_FailureKeepsBatch ==
    [][\A h \in Procs :
          (hpc[h] = "deliver" /\ hdoc'[h] # hdoc[h]) =>
              /\ \A s \in SvcIds :
                    s # Head(hdoc[h].queue).id => svcs'[s] = svcs[s]
              /\ Tail(hdoc[h].queue) # <<>> =>
                    /\ hpc'[h] = "deliver"
                    /\ hdoc'[h].queue = Tail(hdoc[h].queue)]_vars

(* C22: generation gives up only when the whole budget of maxAttempts
   candidates collided: at the exhausted reply no candidate the loop could
   have drawn last is unused, and no more than maxAttempts are ever drawn *)
Exhausted(p) ==
    /\ pc[p] = "gen_find"
    /\ pc'[p] = "idle"
    /\ reply'.msg = "Unable to generate unique control number"

C22_ExhaustedOnlyOnCollisions ==
    [][\A p \in Procs :
          /\ doc'[p].attempts <= maxAttempts
          /\ Exhausted(p) =>
                \A random \in Randoms :
                    findOneWithTimeout(cns, staticGenerateControlNumber(now, random),
                                       StatusEnum) # 0]_vars

(* C23: an extension never succeeds on a code that is not active when the
   extension is written: on a used, expired or cancelled code the reply is a
   failure and validUntil stays as it was *)
ExtendEnds(p) ==
    /\ pc[p] \in {"idle", "ext_save"}
    /\ pc'[p] = "idle"
    /\ reply' # reply
    /\ reply'.op = "extend"

C23_ExtendOnlyWhileActive ==
    [][\A p \in Procs, i \in Ids :
          (ExtendEnds(p) /\ cns[i].status \in TerminalCn
                /\ (pc[p] = "ext_save" => doc[p].id = i))
              => /\ cns'[i].validUntil = cns[i].validUntil
                 /\ (reply'.id = i \/ pc[p] = "ext_save") => ~reply'.ok]_vars

(* C24: a status obtained by polling has the effect of the same status
   received by webhook: for every payment and provider status the stored
   status and history that result are the same, and a poll that stores
   completed goes on to deliver the services as the webhook does *)
Applied(order, status) ==
    LET d == updateStatus(order, pays[order], status, now)
    IN IF d.modified /\ PaymentValid(d) THEN SavePayment(pays[order], d) ELSE pays[order]

PollSavePcs == {"poll_save", "bankpoll_save"}

C24_PollSameAsWebhook ==
    [][/\ \A order \in PayIds, raw \in RawStatuses :
             /\ Applied(order, pollStatusMap(raw)) = Applied(order, webhookStatusMap(raw))
             /\ Applied(order, bankPollStatusMap(raw)) = Applied(order, webhookStatusMap(raw))
       /\ \A h \in Procs :
             (hpc[h] \in PollSavePcs /\ hpc'[h] # hpc[h] /\ hdoc[h].status = "completed")
                 => hpc'[h] = "deliver_find"]_vars

(* C25: every payment record that is newly stored has status pending and a
   history of exactly one entry, pending, whatever the provider answered *)
C25_NewPaymentIsPending ==
    [][Len(pays') > Len(pays) =>
          /\ pays'[Len(pays')].status = "pending"
          /\ pays'[Len(pays')].statusHistory = <<"pending">>]_vars

(* C26: a service is activated once, by the delivery of its payment: a
   service leaves pending only in a deliver step, and once it has left
   pending no step sets it active again or changes accessGrantedAt or
   expiresAt *)
C26_NoReactivation ==
    [][\A s \in SvcIds :
          /\ (svcs[s].status = "pending" /\ svcs'[s].status = "active") =>
                \E h \in Procs : hpc[h] = "deliver" /\ hdoc'[h] # hdoc[h]
          /\ svcs[s].status # "pending" =>
                /\ svcs'[s].status = "active" => svcs[s].status = "active"
                /\ svcs'[s].accessGrantedAt = svcs[s].accessGrantedAt
                /\ svcs'[s].expiresAt = svcs[s].expiresAt]_vars

(* C27: in every reachable state the currentUses of a control number is the
   number of redeems of it that reported success *)
C27_UsesCountSuccesses ==
    \A i \in Ids : cns[i].currentUses = okUses[i]

(* C28: a single-use control number is paid through the provider once: a
   payment of it that passed the provider initiation never reports success
   after another payment of the same code has reported success *)
C28_OneInitiationPerCode ==
    [][\A p \in Procs :
          (pc[p] = "proc_save" /\ pc'[p] = "idle" /\ cns[doc[p].id].maxUses = 1)
              => okUses[doc[p].id] = 0]_vars

(* C30: when the provider initiation fails inside
   processControlNumberPayment the call fails and neither a control number
   nor a payment record is written *)
InitiationFails(p) ==
    /\ pc[p] \in {"proc_initiate", "zproc_initiate"}
    /\ pc'[p] = "idle"

C30_FailedInitiationFrame ==
    [][\A p \in Procs :
          InitiationFails(p) => (~reply'.ok /\ cns' = cns /\ pays' = pays)]_vars

C30_Witness ==
    /\ reply.op = "process"
    /\ reply.msg = "Payment initiation failed"
    /\ \E i \in Ids : cns[i].status = "active" /\ cns[i].currentUses = 0
                        /\ cns[i].usedAt = NoTime /\ cns[i].paymentReference = NoRef
    /\ pays = <<>>

(* C29: a cancellation and a redeem of the same single-use code never both
   report success: no redeem reports success for a code that a cancellation
   has set to cancelled, and a cancelled code never becomes used *)
C29_CancelExcludesRedeem ==
    [][/\ \A p \in Procs :
             (RedeemSucceeds(p) /\ cns[doc[p].id].maxUses = 1)
                 => cns[doc[p].id].status # "cancelled"
       /\ \A i \in Ids :
             cns[i].status = "cancelled" => cns'[i].status # "used"]_vars

====
